---- MODULE Spec2Model ----
(***************************************************************************)
(* Zanoo landing page: the state-bearing behaviour of the page component   *)
(* (ZanooLanding), its QuoteCarousel, the AnimatedCounter, PhotoTile and   *)
(* PhoneFrame components.                                                  *)
(*                                                                         *)
(* Time is counted in seconds (the periods in the source are 3000, 4000,   *)
(* 5000 and 12000 ms).  Every pending timer carries the time left until    *)
(* it is due.  The browser gives no synchronisation between timers of      *)
(* different controllers, so the lead form's timeouts and the rotation     *)
(* intervals are driven by one clock action each; a clock cannot pass a    *)
(* due timer before its callback has run.                                  *)
(*                                                                         *)
(* The controllers share no variable.  Each specification below is one     *)
(* controller group: the lead form, the rotation controllers with the      *)
(* sliders, the image components, the counter.  A property is stated       *)
(* under the specification that holds every action writing the variables   *)
(* the property reads.                                                     *)
(***************************************************************************)
EXTENDS Integers, Sequences, FiniteSets, TLC

\* ------------------------------------------------------------------ bounds
\* number of form submissions explored (each one allocates a timer handle)
MaxSubmits == 3
\* the tick counters (history variables) count exactly up to this many ticks
MaxTicks == 6

\* longest text given to AnimatedCounter as its value
MaxStrLen == 3

\* the lowest scroll position of the page, in pixels
MaxScrollY == 700

\* number of runs of the seed script explored
MaxRuns == 2

\* --------------------------------------------------------------- constants
HeroPeriod == 3
DemoPeriod == 4
QuotePeriod == 5
FormRevertDelay == 12
\* the three interval periods realign after this many seconds
ClockCycle == HeroPeriod * DemoPeriod * QuotePeriod

\* ----------------------------------------------------------------- content
HERO_SHOTS ==
    << [id |-> "inicio",  src |-> "/shots/inicio-paciente.png"],
       [id |-> "medicos", src |-> "/shots/mis-medicos.png"] >>

APP_SHOTS ==
    << [id |-> "inicio",   src |-> "/shots/inicio-paciente.png",   mode |-> "detail"],
       [id |-> "turnos",   src |-> "/shots/turnos-recepcion.png",  mode |-> "list"],
       [id |-> "metricas", src |-> "/shots/metricas-direccion.png", mode |-> "metrics"] >>

PROBLEM_TILES ==
    << [tone |-> "blue",   imageSrc |-> "/photos/papeles-whatsapp-cuaderno.jpg"],
       [tone |-> "violet", imageSrc |-> "/photos/fila-turnos-duplicados.jpg"],
       [tone |-> "amber",  imageSrc |-> "/photos/historia-clinica-incompleta.jpg"] >>

\* an image prop that is not given (undefined)
NoSrc == ""

\* the props a PhotoTile can be rendered with: the page's three tiles, and a
\* tile without imageSrc (the prop is optional; tone defaults to "blue")
TileProps ==
    { PROBLEM_TILES[i] : i \in 1..Len(PROBLEM_TILES) }
        \cup { [tone |-> "blue", imageSrc |-> NoSrc] }

\* the two PhoneFrame instances of the page
Frames == {"hero", "app"}

heroPhrases ==
    << "atender mejor", "cuidar el tiempo", "cuidar a las personas",
       "hacer mas justo el acceso" >>

quotes == << "19M de argentinos", "8.000+ centros de salud", "45% abre todo el dia" >>

tabs == << "Recepcion", "Consultorio", "Direccion" >>

\* JavaScript arrays are 0-based
At(arr, i) == arr[i + 1]

\* Array.prototype.indexOf: the first 0-based position of x, -1 when absent
IndexOf(arr, x) ==
    IF \E i \in 1..Len(arr) : arr[i] = x
    THEN (CHOOSE i \in 1..Len(arr) : arr[i] = x /\ \A j \in 1..(i - 1) : arr[j] # x) - 1
    ELSE -1

TabSet == { tabs[i] : i \in 1..Len(tabs) }

VARIABLES
    mounted,        \* the page view is alive (not yet torn down)
    \* rotation controllers
    intervals,      \* the intervals that are set and not cleared
    heroRem, demoRem, quoteRem,   \* seconds until the interval's next callback
    heroTextIndex,  \* ZanooLanding heroTextIndex
    quoteIndex,     \* QuoteCarousel index
    demoTab,        \* ZanooLanding demoTab
    heroTicks, quoteTicks, demoTicks,  \* history: callbacks run so far (exact below MaxTicks)
    demoClicked,    \* history: a demo tab button has been clicked
    lastClickedTab, \* history: the tab clicked since the last auto-play callback, or "none"
    elapsed,        \* history: seconds on the rotation clock since mount, modulo ClockCycle
    \* screenshot sliders
    heroIndex, shotIndex,
    \* lead form
    formSent,       \* ZanooLanding formSent
    formTimer,      \* formTimer.current: 0 is null, else a timeout handle
    timers,         \* pending timeouts of the form: records [id, rem]
    nextTimerId,    \* the handle window.setTimeout returns next
    navigated,      \* the browser performed the form's default navigation
    lastRevert,     \* history: what last cleared formSent ("none", "timer", "user")
    lateCallback,   \* history: a timer callback ran after teardown
    \* the two PhoneFrame instances of the page, by frame ("hero", "app")
    phoneImgError,  \* PhoneFrame imgError
    phoneImg,       \* the frame's <img>: "none", "loading", "loaded", "broken"
    phoneEffect,    \* the [src] effect is scheduled and has not run yet
    phoneFailed,    \* history: the load of the current src failed
    phoneFailedSrcs, \* history: the srcs whose load failed in the frame
    \* one PhotoTile instance
    tileTone, tileSrc,   \* props tone and imageSrc
    tileImgError,   \* PhotoTile imgError
    tileImg,        \* the tile's <img>: "none", "loading", "loaded", "broken"
    tileFailed,     \* history: the load of imageSrc failed
    \* one AnimatedCounter instance
    cValue, cSuffix,     \* props value and suffix
    cVisible,       \* the span intersects the viewport
    isInView,       \* useInView(ref, { once: true })
    motionValue,    \* the motion value the spring follows
    springValue,    \* the spring's current value
    cText,          \* the span's text: the number shown and the suffix
    animations,     \* history: how often the effect set the motion value
    \* images rendered without an error handler, by consumer
    logoImg,        \* the consumer's <img>: "loading", "loaded", "broken"
    \* navigation bar
    mobileMenuOpen, \* ZanooLanding mobileMenuOpen
    scrolledTo,     \* the section the page last scrolled to, or "none"
    lastScrollId,   \* history: the id given to the last scrollToId call, or "none"
    \* theme
    theme,          \* the preference held by the theme provider
    toggleMounted,  \* ThemeToggle mounted, by instance ("desktop", "mobile")
    lastThemeClick, \* history: the theme button clicked last, or "none"
    \* one CircularMetric instance
    gValue,         \* prop value
    gVisible,       \* the circle intersects the viewport
    gInView,        \* the whileInView target is active (viewport once: true)
    gOffset,        \* the circle's current strokeDashoffset
    gAnimations,    \* history: how often the whileInView animation started
    \* outside the page
    outbound,       \* requests sent and windows opened by the page
    \* ScrollToTop
    scrollY,        \* the motion value of useScroll: the last reported position
    visible,        \* ScrollToTop visible
    scrollingToTop, \* the smooth scroll started by the button is under way
    \* the seed script and the file system it runs on
    fsDirs,         \* the directories that exist
    fsFiles,        \* the files that exist: path -> bytes
    seedPc,         \* where the script is: [at |-> "dirs" | "files" | "done" | "failed", i]
    seedRuns,       \* how many runs of the script have finished
    mkdirCalls,     \* history: the directories the current run passed to mkdirSync
    stdout,         \* the lines the current run has logged
    fsAfterFirstRun \* history: the file system as the first run left it

rotVars  == << intervals, heroRem, demoRem, quoteRem, heroTextIndex, quoteIndex, demoTab,
               heroTicks, quoteTicks, demoTicks, demoClicked, lastClickedTab, elapsed >>
shotVars == << heroIndex, shotIndex >>
formVars == << formSent, formTimer, timers, nextTimerId, navigated, lastRevert >>
phoneVars == << phoneImgError, phoneImg, phoneEffect, phoneFailed, phoneFailedSrcs >>
tileVars == << tileTone, tileSrc, tileImgError, tileImg, tileFailed >>
counterVars == << cValue, cSuffix, cVisible, isInView, motionValue, springValue, cText,
                  animations >>
navVars == << mobileMenuOpen, scrolledTo, lastScrollId >>
themeVars == << theme, toggleMounted, lastThemeClick >>
gaugeVars == << gValue, gVisible, gInView, gOffset, gAnimations >>
scrollVars == << scrollY, visible, scrollingToTop >>
seedVars == << fsDirs, fsFiles, seedPc, seedRuns, mkdirCalls, stdout, fsAfterFirstRun >>
chromeVars == << logoImg, navVars, themeVars, gaugeVars, outbound, scrollVars, seedVars >>
vars == << mounted, rotVars, shotVars, formVars, lateCallback, phoneVars, tileVars,
           counterVars, chromeVars >>

\* a history counter that is exact below the bound and stays at the bound
Count(n) == IF n < MaxTicks THEN n + 1 ELSE n

\* every variable of the page proper, as opposed to the bar, the logos, the
\* theme and the gauge
coreVars == << mounted, rotVars, shotVars, formVars, lateCallback, phoneVars, tileVars,
               counterVars >>

\* --------------------------------------------- logos, menu, theme: the content
\* the images the page renders with no onError handler, and the src of each
Logos == {"brandLight", "brandDark", "replica", "formCard", "demoHeader",
          "footerDark", "footerLight"}

LogoSrc(l) ==
    CASE l = "brandLight" -> "/brand/zanoo-logo-color-v2.png"
      [] l = "brandDark" -> "/brand/zanoo-logo-white-v2.png"
      [] l = "replica" -> "/brand/zanoo-logo-color-v2.png"
      [] l = "formCard" -> "/brand/zanoo-logo-color-v2.png"
      [] l = "demoHeader" -> "/brand/zanoo-logo-color-v2.png"
      [] l = "footerDark" -> "/brand/zanoo-logo-text-white.png"
      [] l = "footerLight" -> "/brand/zanoo-logo-color-v2.png"

\* ids and labels are strings, held as sequences of characters
NoId == << >>

\* the id attributes of the page's sections
SectionIds == {
    << "t", "o", "p" >>,
    << "p", "r", "o", "d", "u", "c", "t", "o" >>,
    << "a", "p", "p" >>,
    << "g", "r", "a", "t", "i", "s" >>,
    << "d", "e", "m", "o" >>,
    << "i", "m", "p", "a", "c", "t", "o" >>,
    << "r", "o", "a", "d", "m", "a", "p" >>,
    << "c", "o", "n", "t", "a", "c", "t", "o" >> }

\* the items of the desktop menu
DesktopItems == <<
    << "P", "r", "o", "d", "u", "c", "t", "o" >>,
    << "A", "p", "p", " ", "r", "e", "a", "l" >>,
    << "G", "r", "a", "t", "i", "s" >>,
    << "I", "m", "p", "a", "c", "t", "o" >>,
    << "R", "o", "a", "d", "m", "a", "p" >> >>

\* the items of the mobile menu
MobileItems == DesktopItems \o << << "C", "o", "n", "t", "a", "c", "t", "o" >> >>

Themes == {"light", "dark", "system"}

\* the two ThemeToggle instances of the bar
Toggles == {"desktop", "mobile"}

\* ------------------------------------------------------------- CircularMetric
\* Lengths are fixed-point, in units of 1/100000 of an SVG unit; Math.PI is
\* taken to three decimals, so the circumference is a whole number of hundred
\* units and the product with value / 100 is exact for whole percentages.
radius == 32

PiFixed == 3142

circumference == 2 * PiFixed * radius * 100

\* variant of GaugeOffset: the arc length is taken for the offset
GaugeOffset_ArcLength(value) == (value * circumference) \div 100

\* offset of CircularMetric
GaugeOffset(value) == circumference - (value * circumference) \div 100

\* the percentages a gauge is given
Percents == 0..100

\* ------------------------------------------------------------------- Init
InitRotation ==
    /\ intervals = {"hero", "demo", "quote"}
    /\ heroRem = HeroPeriod
    /\ demoRem = DemoPeriod
    /\ quoteRem = QuotePeriod
    /\ heroTextIndex = 0
    /\ quoteIndex = 0
    /\ demoTab = "Recepcion"
    /\ heroTicks = 0 /\ quoteTicks = 0 /\ demoTicks = 0
    /\ demoClicked = FALSE
    /\ lastClickedTab = "none"
    /\ elapsed = 0

InitShots ==
    /\ heroIndex = 0
    /\ shotIndex = 0

InitForm ==
    /\ formSent = FALSE
    /\ formTimer = 0
    /\ timers = {}
    /\ nextTimerId = 1
    /\ navigated = FALSE
    /\ lastRevert = "none"

InitPhones ==
    /\ phoneImgError = [f \in Frames |-> FALSE]
    /\ phoneImg = [f \in Frames |-> "loading"]
    /\ phoneEffect = [f \in Frames |-> FALSE]
    /\ phoneFailed = [f \in Frames |-> FALSE]
    /\ phoneFailedSrcs = [f \in Frames |-> {}]

\* a PhotoTile mounted with props p
InitTile(p) ==
    /\ tileTone = p.tone
    /\ tileSrc = p.imageSrc
    /\ tileImgError = FALSE
    /\ tileImg = IF p.imageSrc # NoSrc THEN "loading" ELSE "none"
    /\ tileFailed = FALSE

\* an AnimatedCounter mounted with props value v and suffix sfx
InitCounter(v, sfx) ==
    /\ cValue = v
    /\ cSuffix = sfx
    /\ cVisible = FALSE
    /\ isInView = FALSE
    /\ motionValue = [nan |-> FALSE, v |-> 0]
    /\ springValue = [nan |-> FALSE, v |-> 0]
    /\ cText = [nan |-> FALSE, num |-> 0, suffix |-> sfx]
    /\ animations = 0

\* ------------------------------------------------------------ the seed script
\* paths and encoded text are strings, held as sequences of characters
dirs ==
    << << "p", "u", "b", "l", "i", "c", "/", "b", "r", "a", "n", "d" >>,
       << "p", "u", "b", "l", "i", "c", "/", "s", "h", "o", "t", "s" >>,
       << "p", "u", "b", "l", "i", "c", "/", "p", "h", "o", "t", "o", "s" >> >>

files ==
    << << "p", "u", "b", "l", "i", "c", "/", "b", "r", "a", "n", "d", "/", "z", "a", "n",
          "o", "o", "-", "l", "o", "g", "o", ".", "p", "n", "g" >>,
       << "p", "u", "b", "l", "i", "c", "/", "s", "h", "o", "t", "s", "/", "i", "n", "i",
          "c", "i", "o", "-", "p", "a", "c", "i", "e", "n", "t", "e", ".", "p", "n",
          "g" >>,
       << "p", "u", "b", "l", "i", "c", "/", "s", "h", "o", "t", "s", "/", "m", "i", "s",
          "-", "m", "e", "d", "i", "c", "o", "s", ".", "p", "n", "g" >>,
       << "p", "u", "b", "l", "i", "c", "/", "s", "h", "o", "t", "s", "/", "t", "u", "r",
          "n", "o", "s", "-", "r", "e", "c", "e", "p", "c", "i", "o", "n", ".", "p", "n",
          "g" >>,
       << "p", "u", "b", "l", "i", "c", "/", "s", "h", "o", "t", "s", "/", "m", "e", "t",
          "r", "i", "c", "a", "s", "-", "d", "i", "r", "e", "c", "c", "i", "o", "n", ".",
          "p", "n", "g" >>,
       << "p", "u", "b", "l", "i", "c", "/", "p", "h", "o", "t", "o", "s", "/", "p", "a",
          "p", "e", "l", "e", "s", "-", "w", "h", "a", "t", "s", "a", "p", "p", "-", "c",
          "u", "a", "d", "e", "r", "n", "o", ".", "j", "p", "g" >>,
       << "p", "u", "b", "l", "i", "c", "/", "p", "h", "o", "t", "o", "s", "/", "f", "i",
          "l", "a", "-", "t", "u", "r", "n", "o", "s", "-", "d", "u", "p", "l", "i", "c",
          "a", "d", "o", "s", ".", "j", "p", "g" >>,
       << "p", "u", "b", "l", "i", "c", "/", "p", "h", "o", "t", "o", "s", "/", "h", "i",
          "s", "t", "o", "r", "i", "a", "-", "c", "l", "i", "n", "i", "c", "a", "-", "i",
          "n", "c", "o", "m", "p", "l", "e", "t", "a", ".", "j", "p", "g" >> >>

\* the text given to Buffer.from(..., "base64") for pngBuffer
pngBase64 ==
    << "i", "V", "B", "O", "R", "w", "0", "K", "G", "g", "o", "A", "A", "A", "A", "N", "S", "U",
       "h", "E", "U", "g", "A", "A", "A", "A", "E", "A", "A", "A", "A", "B", "C", "A", "Y", "A",
       "A", "A", "A", "f", "F", "c", "S", "J", "A", "A", "A", "A", "C", "k", "l", "E", "Q", "V",
       "R", "4", "n", "G", "M", "A", "A", "Q", "A", "A", "B", "Q", "A", "B", "D", "Q", "o", "t",
       "t", "A", "A", "A", "A", "A", "B", "J", "R", "U", "5", "E", "r", "k", "J", "g", "g", "g",
       "=", "=" >>

\* the text given to Buffer.from(..., "base64") for jpgBuffer
jpgBase64 ==
    << "/", "9", "j", "/", "4", "A", "A", "Q", "S", "k", "Z", "J", "R", "g", "A", "B", "A", "Q",
       "E", "A", "S", "A", "B", "I", "A", "A", "D", "/", "2", "w", "B", "D", "A", "P", "/", "/",
       "/", "/", "/", "/", "/", "/", "/", "/", "/", "/", "/", "/", "/", "/", "/", "/", "/", "/",
       "/", "/", "/", "/", "/", "/", "/", "/", "/", "/", "/", "/", "/", "/", "/", "/", "/", "/",
       "/", "/", "/", "/", "/", "/", "/", "/", "/", "/", "/", "/", "/", "/", "/", "/", "/", "/",
       "/", "/", "/", "/", "/", "/", "/", "/", "/", "/", "/", "/", "/", "/", "/", "/", "/", "/",
       "/", "/", "/", "/", "/", "/", "/", "/", "/", "/", "/", "/", "w", "g", "A", "L", "C", "A",
       "A", "B", "A", "A", "E", "B", "A", "R", "E", "A", "/", "8", "Q", "A", "F", "B", "A", "B",
       "A", "A", "A", "A", "A", "A", "A", "A", "A", "A", "A", "A", "A", "A", "A", "A", "A", "A",
       "A", "A", "A", "P", "/", "a", "A", "A", "g", "B", "A", "Q", "A", "B", "P", "x", "A",
       "=" >>

\* the base64 alphabet: the character at position k stands for k - 1
Base64Alphabet ==
    << "A", "B", "C", "D", "E", "F", "G", "H", "I", "J", "K", "L", "M", "N", "O", "P", "Q", "R",
       "S", "T", "U", "V", "W", "X", "Y", "Z", "a", "b", "c", "d", "e", "f", "g", "h", "i", "j",
       "k", "l", "m", "n", "o", "p", "q", "r", "s", "t", "u", "v", "w", "x", "y", "z", "0", "1",
       "2", "3", "4", "5", "6", "7", "8", "9", "+", "/" >>

\* the number a base64 character stands for
Base64Value(c) == (CHOOSE k \in 1..Len(Base64Alphabet) : Base64Alphabet[k] = c) - 1

\* Buffer.from(text, "base64"): every group of four characters gives three
\* bytes; a group ending in "=" gives two and one ending in "==" gives one
RECURSIVE Base64Decode(_)
Base64Decode(text) ==
    IF Len(text) < 4 THEN << >>
    ELSE LET v1 == Base64Value(text[1])
             v2 == Base64Value(text[2])
             b1 == v1 * 4 + v2 \div 16
         IN  IF text[3] = "=" THEN << b1 >>
             ELSE LET v3 == Base64Value(text[3])
                      b2 == (v2 % 16) * 16 + v3 \div 4
                  IN  IF text[4] = "=" THEN << b1, b2 >>
                      ELSE << b1, b2, (v3 % 4) * 64 + Base64Value(text[4]) >>
                               \o Base64Decode(SubSeq(text, 5, Len(text)))

pngBuffer == Base64Decode(pngBase64)

jpgBuffer == Base64Decode(jpgBase64)

\* the position of the last c in s, or 0 when s has none
LastIndexOf(s, c) ==
    IF \E i \in 1..Len(s) : s[i] = c
    THEN CHOOSE i \in 1..Len(s) : s[i] = c /\ \A j \in (i + 1)..Len(s) : s[j] # c
    ELSE 0

\* path.basename
basename(p) == SubSeq(p, LastIndexOf(p, "/") + 1, Len(p))

\* path.dirname of a relative path that has a directory part
dirname(p) == SubSeq(p, 1, LastIndexOf(p, "/") - 1)

\* path.extname: from the last "." of the last segment to its end; empty when
\* the segment has no "." or only a leading one, and for ".."
extname(p) ==
    LET base == basename(p)
        dot == LastIndexOf(base, ".")
    IN  IF dot <= 1 \/ base = << ".", "." >> THEN << >> ELSE SubSeq(base, dot, Len(base))

\* the directories above p, which mkdirSync(p, { recursive: true }) creates too
Ancestors(p) == { SubSeq(p, 1, i - 1) : i \in { j \in 1..Len(p) : p[j] = "/" } }

\* variant of content: every file gets the PNG bytes
content_AlwaysPng(file) == pngBuffer

\* const content of the files loop
content(file) ==
    IF extname(file) = << ".", "j", "p", "g" >> \/ extname(file) = << ".", "j", "p", "e", "g" >>
    THEN jpgBuffer
    ELSE pngBuffer

\* the text of a character sequence
RECURSIVE Text(_)
Text(s) == IF Len(s) = 0 THEN "" ELSE s[1] \o Text(Tail(s))

\* the file under public/ that the page's absolute path p is served from
PublicFile(p) == "public" \o p

\* the static image paths the page references
PageImagePaths ==
    { HERO_SHOTS[i].src : i \in 1..Len(HERO_SHOTS) }
        \cup { APP_SHOTS[i].src : i \in 1..Len(APP_SHOTS) }
        \cup { PROBLEM_TILES[i].imageSrc : i \in 1..Len(PROBLEM_TILES) }
        \cup { LogoSrc(l) : l \in Logos }

\* file systems the script can be started on: any of its directories may exist
\* already, and in them a file of its list with other bytes, a file of its
\* list with the bytes of the other kind, and a file that is not on its list
PublicDir == << "p", "u", "b", "l", "i", "c" >>

ForeignFile ==
    << "p", "u", "b", "l", "i", "c", "/", "b", "r", "a", "n", "d", "/", "z", "a", "n", "o", "o",
       "-", "l", "o", "g", "o", "-", "c", "o", "l", "o", "r", "-", "v", "2", ".", "p", "n", "g"
       >>

OldBytes == << 0 >>

SeedInitDirs ==
    { d \in SUBSET ({PublicDir} \cup { dirs[i] : i \in 1..Len(dirs) }) :
        \A x \in d : Ancestors(x) \subseteq d }

SeedInitFiles(d) ==
    { [ p \in S |-> IF p = files[6] THEN pngBuffer ELSE OldBytes ] :
        S \in SUBSET { p \in {files[1], files[6], ForeignFile} : dirname(p) \in d } }

\* ScrollToTop before any scroll position was reported
InitScroll ==
    /\ scrollY = 0
    /\ visible = FALSE
    /\ scrollingToTop = FALSE

\* the seed script about to run on the directories d and the files f
InitSeed(d, f) ==
    /\ fsDirs = d
    /\ fsFiles = f
    /\ seedPc = [at |-> "dirs", i |-> 1]
    /\ seedRuns = 0
    /\ mkdirCalls = {}
    /\ stdout = << >>
    /\ fsAfterFirstRun = << d, f >>

InitLogos == logoImg = [l \in Logos |-> "loading"]

InitNav ==
    /\ mobileMenuOpen = FALSE
    /\ scrolledTo = NoId
    /\ lastScrollId = NoId

\* the provider holds preference t; no ThemeToggle effect has run yet
InitTheme(t) ==
    /\ theme = t
    /\ toggleMounted = [g \in Toggles |-> FALSE]
    /\ lastThemeClick = "none"

\* a CircularMetric mounted with value v
InitGauge(v) ==
    /\ gValue = v
    /\ gVisible = FALSE
    /\ gInView = FALSE
    /\ gOffset = circumference
    /\ gAnimations = 0

\* the bar, the logos, the theme at its default and the page's one gauge
InitChrome ==
    /\ InitLogos
    /\ InitNav
    /\ InitTheme("system")
    /\ InitGauge(92)
    /\ outbound = {}
    /\ InitScroll
    /\ InitSeed({}, << >>)

InitPage ==
    /\ mounted = TRUE
    /\ lateCallback = FALSE
    /\ InitRotation
    /\ InitShots
    /\ InitForm
    /\ InitPhones

\* the page with its first PhotoTile and its first AnimatedCounter
Init ==
    /\ InitPage
    /\ InitTile(PROBLEM_TILES[1])
    /\ InitCounter([type |-> "number", n |-> 86, s |-> << >>], "%")
    /\ InitChrome

\* ------------------------------------------------------ rotation controllers
\* variant of NextPhrase: the wrap is forgotten
NextPhrase_NoWrap(prev) == prev + 1

\* setHeroTextIndex updater
NextPhrase(prev) == (prev + 1) % Len(heroPhrases)

\* QuoteCarousel setIndex updater
NextQuote(prev) == (prev + 1) % Len(quotes)

\* setDemoTab updater of the auto-play interval
NextDemoTab(prev) ==
    LET currentIndex == IndexOf(tabs, prev)
        nextIndex == (currentIndex + 1) % Len(tabs)
    IN  At(tabs, nextIndex)

HeroTick ==
    /\ "hero" \in intervals
    /\ heroRem = 0
    /\ heroTextIndex' = NextPhrase(heroTextIndex)
    /\ heroRem' = HeroPeriod
    /\ heroTicks' = Count(heroTicks)
    /\ UNCHANGED << chromeVars, mounted, intervals, demoRem, quoteRem, quoteIndex, demoTab,
                    quoteTicks, demoTicks, demoClicked, lastClickedTab, elapsed,
                    shotVars, formVars, lateCallback, phoneVars, tileVars, counterVars >>

QuoteTick ==
    /\ "quote" \in intervals
    /\ quoteRem = 0
    /\ quoteIndex' = NextQuote(quoteIndex)
    /\ quoteRem' = QuotePeriod
    /\ quoteTicks' = Count(quoteTicks)
    /\ UNCHANGED << chromeVars, mounted, intervals, heroRem, demoRem, heroTextIndex, demoTab,
                    heroTicks, demoTicks, demoClicked, lastClickedTab, elapsed,
                    shotVars, formVars, lateCallback, phoneVars, tileVars, counterVars >>

DemoTick ==
    /\ "demo" \in intervals
    /\ demoRem = 0
    /\ demoTab' = NextDemoTab(demoTab)
    /\ demoRem' = DemoPeriod
    /\ demoTicks' = Count(demoTicks)
    /\ lastClickedTab' = "none"
    /\ UNCHANGED << chromeVars, mounted, intervals, heroRem, quoteRem, heroTextIndex, quoteIndex,
                    heroTicks, quoteTicks, demoClicked, elapsed, shotVars, formVars,
                    lateCallback, phoneVars, tileVars, counterVars >>

\* one second passes for the rotation intervals
AdvanceRotationClock ==
    /\ intervals # {}
    /\ "hero" \in intervals => heroRem > 0
    /\ "demo" \in intervals => demoRem > 0
    /\ "quote" \in intervals => quoteRem > 0
    /\ heroRem' = IF "hero" \in intervals THEN heroRem - 1 ELSE heroRem
    /\ demoRem' = IF "demo" \in intervals THEN demoRem - 1 ELSE demoRem
    /\ quoteRem' = IF "quote" \in intervals THEN quoteRem - 1 ELSE quoteRem
    /\ elapsed' = (elapsed + 1) % ClockCycle
    /\ UNCHANGED << chromeVars, mounted, intervals, heroTextIndex, quoteIndex, demoTab,
                    heroTicks, quoteTicks, demoTicks, demoClicked, lastClickedTab,
                    shotVars, formVars, lateCallback, phoneVars, tileVars, counterVars >>

\* variant of ClickDemoTab: the click restarts the auto-play interval
ClickDemoTab_RestartsTimer(t) ==
    /\ mounted
    /\ demoTab' = t
    /\ demoRem' = DemoPeriod
    /\ demoClicked' = TRUE
    /\ lastClickedTab' = t
    /\ UNCHANGED << chromeVars, mounted, intervals, heroRem, quoteRem, heroTextIndex,
                    quoteIndex, heroTicks, quoteTicks, demoTicks, elapsed, shotVars,
                    formVars, lateCallback, phoneVars, tileVars, counterVars >>

\* onClick of a demo tab button (both button rows call setDemoTab(t))
ClickDemoTab(t) ==
    /\ mounted
    /\ demoTab' = t
    /\ demoClicked' = TRUE
    /\ lastClickedTab' = t
    /\ UNCHANGED << chromeVars, mounted, intervals, heroRem, demoRem, quoteRem, heroTextIndex,
                    quoteIndex, heroTicks, quoteTicks, demoTicks, elapsed, shotVars,
                    formVars, lateCallback, phoneVars, tileVars, counterVars >>

\* ------------------------------------------------------------------ PhoneFrame
\* showImage of PhoneFrame
PhoneFrameShowImage(src, err) == (src # NoSrc) /\ ~err

activeShot == At(APP_SHOTS, shotIndex % Len(APP_SHOTS))
activeHeroShot == At(HERO_SHOTS, heroIndex % Len(HERO_SHOTS))

\* the src prop each PhoneFrame of the page is rendered with
PhoneSrc(f) == IF f = "hero" THEN activeHeroShot.src ELSE activeShot.src

\* what a PhoneFrame renders inside the screen
PhoneFrameRender(f) ==
    IF PhoneFrameShowImage(PhoneSrc(f), phoneImgError[f])
    THEN [kind |-> "img", src |-> PhoneSrc(f)]
    ELSE [kind |-> "placeholder", content |-> "children"]

\* passive effects run before the next event is handled
EffectsFlushed == \A f \in Frames : ~phoneEffect[f]

\* PhoneFrame f is rendered again after its src prop went from old to new:
\* the [src] effect is scheduled; the <img>, when rendered, loads the new src
PhoneRerender(f, old, new) ==
    IF new = old
    THEN UNCHANGED phoneVars
    ELSE /\ phoneEffect' = [phoneEffect EXCEPT ![f] = TRUE]
         /\ phoneImg' = [phoneImg EXCEPT ![f] =
                IF PhoneFrameShowImage(new, phoneImgError[f]) THEN "loading" ELSE "none"]
         /\ phoneFailed' = [phoneFailed EXCEPT ![f] = FALSE]
         /\ UNCHANGED << phoneImgError, phoneFailedSrcs >>

\* variant of PhoneEffect: the effect runs but leaves the error flag as it is
PhoneEffect_KeepsError(f) ==
    /\ mounted
    /\ phoneEffect[f]
    /\ phoneEffect' = [phoneEffect EXCEPT ![f] = FALSE]
    /\ phoneImg' = [phoneImg EXCEPT ![f] =
           IF ~PhoneFrameShowImage(PhoneSrc(f), phoneImgError[f]) THEN "none"
           ELSE phoneImg[f]]
    /\ UNCHANGED << chromeVars, mounted, rotVars, shotVars, formVars, lateCallback,
                    phoneImgError, phoneFailed, phoneFailedSrcs, tileVars, counterVars >>

\* the effect of PhoneFrame f runs: setImgError(false), and the render it causes
PhoneEffect(f) ==
    /\ mounted
    /\ phoneEffect[f]
    /\ phoneEffect' = [phoneEffect EXCEPT ![f] = FALSE]
    /\ phoneImgError' = [phoneImgError EXCEPT ![f] = FALSE]
    /\ phoneImg' = [phoneImg EXCEPT ![f] =
           IF ~PhoneFrameShowImage(PhoneSrc(f), FALSE) THEN "none"
           ELSE IF phoneImg[f] = "none" THEN "loading"
           ELSE phoneImg[f]]
    /\ UNCHANGED << chromeVars, mounted, rotVars, shotVars, formVars, lateCallback,
                    phoneFailed, phoneFailedSrcs, tileVars, counterVars >>

\* the <img> of PhoneFrame f finishes loading
PhoneLoadOk(f) ==
    /\ mounted
    /\ EffectsFlushed
    /\ phoneImg[f] = "loading"
    /\ phoneImg' = [phoneImg EXCEPT ![f] = "loaded"]
    /\ UNCHANGED << chromeVars, mounted, rotVars, shotVars, formVars, lateCallback,
                    phoneImgError, phoneEffect, phoneFailed, phoneFailedSrcs, tileVars,
                    counterVars >>

\* the <img> of PhoneFrame f fails to load: onError runs setImgError(true)
PhoneLoadFail(f) ==
    /\ mounted
    /\ EffectsFlushed
    /\ phoneImg[f] = "loading"
    /\ phoneFailed' = [phoneFailed EXCEPT ![f] = TRUE]
    /\ phoneFailedSrcs' = [phoneFailedSrcs EXCEPT ![f] = @ \cup {PhoneSrc(f)}]
    /\ phoneImgError' = [phoneImgError EXCEPT ![f] = TRUE]
    /\ phoneImg' = [phoneImg EXCEPT ![f] =
           IF PhoneFrameShowImage(PhoneSrc(f), TRUE) THEN "broken" ELSE "none"]
    /\ UNCHANGED << chromeVars, mounted, rotVars, shotVars, formVars, lateCallback, phoneEffect,
                    tileVars, counterVars >>

\* ---------------------------------------------------------- screenshot sliders
\* variant of PrevSlide: the wrap from the first slide is forgotten
PrevSlide_NoWrap(p, len) == p - 1

\* "previous" updater of both sliders
PrevSlide(p, len) == IF p = 0 THEN len - 1 ELSE p - 1

\* variant of NextSlide: the wrap from the last slide is forgotten
NextSlide_NoWrap(p, len) == p + 1

\* "next" updater of both sliders
NextSlide(p, len) == (p + 1) % len

\* setHeroIndex(i) and the render of the hero PhoneFrame that follows
SetHeroIndex(i) ==
    /\ mounted
    /\ EffectsFlushed
    /\ heroIndex' = i
    /\ PhoneRerender("hero", activeHeroShot.src, At(HERO_SHOTS, i % Len(HERO_SHOTS)).src)
    /\ UNCHANGED << chromeVars, mounted, rotVars, shotIndex, formVars, lateCallback, tileVars,
                    counterVars >>

\* setShotIndex(i) and the render of the app PhoneFrame that follows
SetShotIndex(i) ==
    /\ mounted
    /\ EffectsFlushed
    /\ shotIndex' = i
    /\ PhoneRerender("app", activeShot.src, At(APP_SHOTS, i % Len(APP_SHOTS)).src)
    /\ UNCHANGED << chromeVars, mounted, rotVars, heroIndex, formVars, lateCallback, tileVars,
                    counterVars >>

HeroDot(i) == SetHeroIndex(i)

HeroPrev == SetHeroIndex(PrevSlide(heroIndex, Len(HERO_SHOTS)))

HeroNext == SetHeroIndex(NextSlide(heroIndex, Len(HERO_SHOTS)))

ShotTab(i) == SetShotIndex(i)

ShotPrev == SetShotIndex(PrevSlide(shotIndex, Len(APP_SHOTS)))

ShotNext == SetShotIndex(NextSlide(shotIndex, Len(APP_SHOTS)))

\* ------------------------------------------------------------------- PhotoTile
\* variant of PhotoTileShowImage: the error flag is not consulted
PhotoTileShowImage_IgnoresError(src, err) == src # NoSrc

\* showImage of PhotoTile
PhotoTileShowImage(src, err) == (src # NoSrc) /\ ~err

\* toneMap of PhotoTile
toneMap(tone) ==
    CASE tone = "blue" -> "from-slate-900/10 via-blue-900/10 to-cyan-900/10"
      [] tone = "violet" -> "from-slate-900/10 via-purple-900/10 to-fuchsia-900/10"
      [] tone = "amber" -> "from-slate-900/10 via-orange-900/10 to-amber-900/10"

\* what a PhotoTile renders in its image area
PhotoTileRender ==
    IF PhotoTileShowImage(tileSrc, tileImgError)
    THEN [kind |-> "img", src |-> tileSrc]
    ELSE [kind |-> "placeholder", content |-> toneMap(tileTone)]

\* the <img> of the tile finishes loading
TileLoadOk ==
    /\ mounted
    /\ tileImg = "loading"
    /\ tileImg' = "loaded"
    /\ UNCHANGED << chromeVars, mounted, rotVars, shotVars, formVars, lateCallback, phoneVars,
                    tileTone, tileSrc, tileImgError, tileFailed, counterVars >>

\* the <img> of the tile fails to load: onError runs setImgError(true)
TileLoadFail ==
    /\ mounted
    /\ tileImg = "loading"
    /\ tileFailed' = TRUE
    /\ tileImgError' = TRUE
    /\ tileImg' = IF PhotoTileShowImage(tileSrc, TRUE) THEN "broken" ELSE "none"
    /\ UNCHANGED << chromeVars, mounted, rotVars, shotVars, formVars, lateCallback, phoneVars,
                    tileTone, tileSrc, counterVars >>

\* ------------------------------------------------------------ AnimatedCounter
\* Numbers are fixed-point: a number x is held as x * Scale, so that every
\* decimal numeral of at most MaxStrLen characters is exact.  NaN is apart.
RECURSIVE Pow10(_)
Pow10(k) == IF k = 0 THEN 1 ELSE 10 * Pow10(k - 1)

Scale == Pow10(MaxStrLen)

Num(x) == [nan |-> FALSE, v |-> x]
NaN == [nan |-> TRUE, v |-> 0]

Digits == {"0", "1", "2", "3", "4", "5", "6", "7", "8", "9"}

DigitVal(c) ==
    CASE c = "0" -> 0 [] c = "1" -> 1 [] c = "2" -> 2 [] c = "3" -> 3 [] c = "4" -> 4
      [] c = "5" -> 5 [] c = "6" -> 6 [] c = "7" -> 7 [] c = "8" -> 8 [] c = "9" -> 9

\* the characters the texts given to the counter are made of
InputChars == {"0", "2", "9", ".", "%"}

Texts == UNION { [1..k -> InputChars] : k \in 0..MaxStrLen }

\* the numeric values the page gives its counters
PageCounterNumbers == {7, 14, 18, 86}

CounterValues ==
    { [type |-> "number", n |-> x, s |-> << >>] : x \in PageCounterNumbers }
        \cup { [type |-> "string", n |-> 0, s |-> t] : t \in Texts }

Suffixes == {"", "%"}

\* the characters the pattern [^0-9.] leaves in place
IsKept(c) == c \in Digits \/ c = "."

\* variant of IsKept: the pattern is written [^0-9]
IsKept_DigitsOnly(c) == c \in Digits

\* value.replace(/[^0-9.]/g, "")
StripNonNumeric(s) == SelectSeq(s, IsKept)

\* the number of digits of s from position from on
RECURSIVE LeadingDigits(_, _)
LeadingDigits(s, from) ==
    IF from <= Len(s) /\ s[from] \in Digits THEN 1 + LeadingDigits(s, from + 1) ELSE 0

\* the value of a sequence of digits
RECURSIVE DigitsValue(_)
DigitsValue(s) ==
    IF s = << >> THEN 0
    ELSE 10 * DigitsValue(SubSeq(s, 1, Len(s) - 1)) + DigitVal(s[Len(s)])

\* parseFloat of a text of digits and dots: the longest prefix that is a
\* decimal numeral, NaN when no prefix is one
ParseFloat(s) ==
    LET i == LeadingDigits(s, 1)
        hasDot == i < Len(s) /\ s[i + 1] = "."
        f == IF hasDot THEN LeadingDigits(s, i + 2) ELSE 0
    IN  IF i = 0 /\ f = 0
        THEN NaN
        ELSE Num(DigitsValue(SubSeq(s, 1, i)) * Scale
                 + (DigitsValue(SubSeq(s, i + 2, i + 1 + f)) * Scale) \div Pow10(f))

\* variant of NumericValue: the dot is stripped with the other characters
NumericValue_DropsDot(value) ==
    IF value.type = "string"
    THEN ParseFloat(SelectSeq(value.s, IsKept_DigitsOnly))
    ELSE Num(value.n * Scale)

\* numericValue of AnimatedCounter
NumericValue(value) ==
    IF value.type = "string"
    THEN ParseFloat(StripNonNumeric(value.s))
    ELSE Num(value.n * Scale)

\* variant of InViewAfterLeave: the hook is used without once
InViewAfterLeave_Rearms(cur) == FALSE

\* useInView with once: true stops observing after the first entry, so the
\* element leaving the viewport is not reported
InViewAfterLeave(cur) == cur

\* Math.floor(latest) and the suffix, as the span's text (the number is
\* written with the locale's thousands separators)
CounterText(latest, sfx) ==
    [nan |-> latest.nan, num |-> latest.v \div Scale, suffix |-> sfx]

\* one step of the spring towards its target: the spring (damping 30,
\* stiffness 100, mass 1) is overdamped, it closes in without overshoot
SpringToward(x, t) ==
    IF t.nan THEN NaN
    ELSE IF t.v - x.v \in -1..1 THEN t
    ELSE Num(x.v + (t.v - x.v) \div 2)

\* the span enters the viewport; on the first entry isInView becomes true and
\* the effect sets the motion value to numericValue
EnterView ==
    /\ ~cVisible
    /\ cVisible' = TRUE
    /\ isInView' = TRUE
    /\ IF ~isInView
       THEN /\ motionValue' = NumericValue(cValue)
            /\ animations' = IF animations < 2 THEN animations + 1 ELSE animations
       ELSE UNCHANGED << motionValue, animations >>
    /\ UNCHANGED << chromeVars, mounted, rotVars, shotVars, formVars, lateCallback, phoneVars,
                    tileVars, cValue, cSuffix, springValue, cText >>

\* the span leaves the viewport
LeaveView ==
    /\ cVisible
    /\ cVisible' = FALSE
    /\ isInView' = InViewAfterLeave(isInView)
    /\ UNCHANGED << chromeVars, mounted, rotVars, shotVars, formVars, lateCallback, phoneVars,
                    tileVars, cValue, cSuffix, motionValue, springValue, cText,
                    animations >>

\* an animation frame: the spring moves and its "change" listener writes the text
SpringStep ==
    /\ springValue # motionValue
    /\ springValue' = SpringToward(springValue, motionValue)
    /\ cText' = CounterText(springValue', cSuffix)
    /\ UNCHANGED << chromeVars, mounted, rotVars, shotVars, formVars, lateCallback, phoneVars,
                    tileVars, cValue, cSuffix, cVisible, isInView, motionValue,
                    animations >>

\* ------------------------------------------------------------------ lead form
\* e.preventDefault() is the first statement of onSubmit
PreventDefault == TRUE

\* variant of Submit: the delay is written with a digit missing (1200 ms)
Submit_ShortDelay ==
    /\ mounted
    /\ ~formSent
    /\ nextTimerId <= MaxSubmits
    /\ navigated' = (navigated \/ ~PreventDefault)
    /\ formSent' = TRUE
    /\ timers' = timers \cup { [id |-> nextTimerId, rem |-> FormRevertDelay \div 10] }
    /\ formTimer' = nextTimerId
    /\ nextTimerId' = nextTimerId + 1
    /\ lastRevert' = "none"
    /\ UNCHANGED << chromeVars, mounted, rotVars, shotVars, lateCallback, phoneVars, tileVars,
                    counterVars >>

\* variant of Submit: the mailto window.open of the handler is not commented out
Submit_OpensMail ==
    /\ mounted
    /\ ~formSent
    /\ nextTimerId <= MaxSubmits
    /\ navigated' = (navigated \/ ~PreventDefault)
    /\ outbound' = outbound \cup {"mailto:hola@zanoo.com.ar"}
    /\ formSent' = TRUE
    /\ timers' = timers \cup { [id |-> nextTimerId, rem |-> FormRevertDelay] }
    /\ formTimer' = nextTimerId
    /\ nextTimerId' = nextTimerId + 1
    /\ lastRevert' = "none"
    /\ UNCHANGED << logoImg, navVars, themeVars, gaugeVars, scrollVars, seedVars, mounted,
                    rotVars, shotVars,
                    lateCallback, phoneVars, tileVars, counterVars >>

\* the form's onSubmit; the form is rendered only while formSent is false
Submit ==
    /\ mounted
    /\ ~formSent
    /\ nextTimerId <= MaxSubmits
    /\ navigated' = (navigated \/ ~PreventDefault)
    /\ formSent' = TRUE
    /\ timers' = timers \cup { [id |-> nextTimerId, rem |-> FormRevertDelay] }
    /\ formTimer' = nextTimerId
    /\ nextTimerId' = nextTimerId + 1
    /\ lastRevert' = "none"
    /\ UNCHANGED << chromeVars, mounted, rotVars, shotVars, lateCallback, phoneVars, tileVars,
                    counterVars >>

\* onClick of "Enviar otra", rendered only while formSent is true
EnviarOtra ==
    /\ mounted
    /\ formSent
    /\ formSent' = FALSE
    /\ lastRevert' = "user"
    /\ UNCHANGED << chromeVars, mounted, rotVars, shotVars, formTimer, timers, nextTimerId,
                    navigated, lateCallback, phoneVars, tileVars, counterVars >>

\* variant of FireRevert: the callback leaves formSent as it is
FireRevert_KeepsSent(t) ==
    /\ t \in timers
    /\ t.rem = 0
    /\ timers' = timers \ {t}
    /\ lateCallback' = (lateCallback \/ ~mounted)
    /\ UNCHANGED << chromeVars, mounted, rotVars, shotVars, formSent, formTimer, nextTimerId,
                    navigated, lastRevert, phoneVars, tileVars, counterVars >>

\* the timeout callback () => setFormSent(false) of timer t runs
FireRevert(t) ==
    /\ t \in timers
    /\ t.rem = 0
    /\ timers' = timers \ {t}
    /\ formSent' = IF mounted THEN FALSE ELSE formSent
    /\ lastRevert' = IF mounted /\ formSent THEN "timer" ELSE lastRevert
    /\ lateCallback' = (lateCallback \/ ~mounted)
    /\ UNCHANGED << chromeVars, mounted, rotVars, shotVars, formTimer, nextTimerId, navigated,
                    phoneVars, tileVars, counterVars >>

\* one second passes for the form's timeouts
AdvanceFormClock ==
    /\ timers # {}
    /\ \A t \in timers : t.rem > 0
    /\ timers' = { [id |-> t.id, rem |-> t.rem - 1] : t \in timers }
    /\ UNCHANGED << chromeVars, mounted, rotVars, shotVars, formSent, formTimer, nextTimerId,
                    navigated, lastRevert, lateCallback, phoneVars, tileVars, counterVars >>

\* ------------------------------------------------- images without a fallback
\* the <img> of consumer l finishes loading
LogoLoadOk(l) ==
    /\ mounted
    /\ logoImg[l] = "loading"
    /\ logoImg' = [logoImg EXCEPT ![l] = "loaded"]
    /\ UNCHANGED << coreVars, scrollVars, seedVars, navVars, themeVars, gaugeVars, outbound >>

\* the <img> of consumer l fails to load: the element has no onError handler
\* and the component no state, so the element stays as the browser leaves it
LogoLoadFail(l) ==
    /\ mounted
    /\ logoImg[l] = "loading"
    /\ logoImg' = [logoImg EXCEPT ![l] = "broken"]
    /\ UNCHANGED << coreVars, scrollVars, seedVars, navVars, themeVars, gaugeVars, outbound >>

\* ------------------------------------------------------------- navigation bar
UpperCase == << "A", "B", "C", "D", "E", "F", "G", "H", "I", "J", "K", "L", "M",
                "N", "O", "P", "Q", "R", "S", "T", "U", "V", "W", "X", "Y", "Z" >>

LowerCase == << "a", "b", "c", "d", "e", "f", "g", "h", "i", "j", "k", "l", "m",
                "n", "o", "p", "q", "r", "s", "t", "u", "v", "w", "x", "y", "z" >>

\* String.prototype.toLowerCase
ToLowerCase(s) ==
    [ i \in 1..Len(s) |->
        IF \E k \in 1..Len(UpperCase) : UpperCase[k] = s[i]
        THEN LowerCase[CHOOSE k \in 1..Len(UpperCase) : UpperCase[k] = s[i]]
        ELSE s[i] ]

\* s.replace(c, "") with a string pattern: the first occurrence of c is removed
RemoveFirst(s, c) ==
    IF \E i \in 1..Len(s) : s[i] = c
    THEN LET i == CHOOSE i \in 1..Len(s) : s[i] = c /\ \A j \in 1..(i - 1) : s[j] # c
         IN  SubSeq(s, 1, i - 1) \o SubSeq(s, i + 1, Len(s))
    ELSE s

\* the id a menu item scrolls to: item.toLowerCase().replace(" ", "")
ItemTarget(item) == RemoveFirst(ToLowerCase(item), " ")

\* scrollToId: the element with the id, if there is one, is scrolled into view
scrollToId(id) ==
    /\ scrolledTo' = IF id \in SectionIds THEN id ELSE scrolledTo
    /\ lastScrollId' = id

\* onClick of the logo button of the bar
ClickLogo ==
    /\ mounted
    /\ scrollToId(<< "t", "o", "p" >>)
    /\ UNCHANGED << coreVars, scrollVars, seedVars, logoImg, mobileMenuOpen, themeVars,
                    gaugeVars, outbound >>

\* onClick of item k of the desktop menu
ClickDesktopItem(k) ==
    /\ mounted
    /\ scrollToId(ItemTarget(DesktopItems[k]))
    /\ UNCHANGED << coreVars, scrollVars, seedVars, logoImg, mobileMenuOpen, themeVars,
                    gaugeVars, outbound >>

\* onClick of the "Pedi demo" button of the bar
ClickPedirDemo ==
    /\ mounted
    /\ scrollToId(<< "c", "o", "n", "t", "a", "c", "t", "o" >>)
    /\ UNCHANGED << coreVars, scrollVars, seedVars, logoImg, mobileMenuOpen, themeVars,
                    gaugeVars, outbound >>

\* variant of ToggleMobileMenu: the handler also rewinds the hero slider
ToggleMobileMenu_RewindsHeroSlider ==
    /\ mounted
    /\ mobileMenuOpen' = ~mobileMenuOpen
    /\ heroIndex' = 0
    /\ UNCHANGED << mounted, rotVars, shotIndex, formVars, lateCallback, phoneVars, tileVars,
                    counterVars, logoImg, scrolledTo, lastScrollId, themeVars, gaugeVars,
                    outbound, scrollVars, seedVars >>

\* onClick of the mobile menu toggle
ToggleMobileMenu ==
    /\ mounted
    /\ mobileMenuOpen' = ~mobileMenuOpen
    /\ UNCHANGED << coreVars, scrollVars, seedVars, logoImg, scrolledTo, lastScrollId,
                    themeVars, gaugeVars, outbound >>

\* variant of ClickMobileItem: the handler scrolls but leaves the menu open
ClickMobileItem_LeavesOpen(k) ==
    /\ mounted
    /\ mobileMenuOpen
    /\ scrollToId(ItemTarget(MobileItems[k]))
    /\ UNCHANGED << coreVars, scrollVars, seedVars, logoImg, mobileMenuOpen, themeVars,
                    gaugeVars, outbound >>

\* onClick of item k of the mobile menu, rendered only while the menu is open
ClickMobileItem(k) ==
    /\ mounted
    /\ mobileMenuOpen
    /\ scrollToId(ItemTarget(MobileItems[k]))
    /\ mobileMenuOpen' = FALSE
    /\ UNCHANGED << coreVars, scrollVars, seedVars, logoImg, themeVars, gaugeVars, outbound >>

\* ---------------------------------------------------------------- ThemeToggle
\* variant of ThemeToggleRender: the buttons are rendered before the mount effect
ThemeToggleRender_NoMountGuard(g) ==
    [kind |-> "buttons", active |-> { b \in Themes : theme = b }]

\* what ThemeToggle g renders: nothing until mounted, then the three buttons,
\* each with the active styling when theme is its value
ThemeToggleRender(g) ==
    IF ~toggleMounted[g]
    THEN [kind |-> "null", active |-> {}]
    ELSE [kind |-> "buttons", active |-> { b \in Themes : theme = b }]

\* variant of ButtonRequest: the dark button asks for the system preference
ButtonRequest_DarkAsksSystem(b) == IF b = "dark" THEN "system" ELSE b

\* the argument button b gives to setTheme
ButtonRequest(b) == b

\* the mount effect of ThemeToggle g: setMounted(true)
ToggleMountEffect(g) ==
    /\ mounted
    /\ ~toggleMounted[g]
    /\ toggleMounted' = [toggleMounted EXCEPT ![g] = TRUE]
    /\ UNCHANGED << coreVars, scrollVars, seedVars, logoImg, navVars, theme, lastThemeClick,
                    gaugeVars, outbound >>

\* onClick of button b of ThemeToggle g; the provider keeps what setTheme is given
ClickTheme(g, b) ==
    /\ mounted
    /\ ThemeToggleRender(g).kind = "buttons"
    /\ theme' = ButtonRequest(b)
    /\ lastThemeClick' = b
    /\ UNCHANGED << coreVars, scrollVars, seedVars, logoImg, navVars, toggleMounted, gaugeVars,
                    outbound >>

\* ------------------------------------------------------ CircularMetric events
\* variant of GaugeInViewAfterLeave: the viewport option once is false
GaugeInViewAfterLeave_Rearms(cur) == FALSE

\* viewport={{ once: true }}: after the first entry the circle is no longer
\* observed, so its leaving the viewport does not end whileInView
GaugeInViewAfterLeave(cur) == cur

\* the strokeDashoffset the circle animates to: the whileInView value once in
\* view, the initial value otherwise
GaugeAnimTarget == IF gInView THEN GaugeOffset(gValue) ELSE circumference

\* one frame of the easeOut tween from x towards t
TweenToward(x, t) ==
    IF t - x \in -1..1 THEN t ELSE x + (t - x) \div 2

\* the circle enters the viewport; the first entry starts the animation
GaugeEnterView ==
    /\ mounted
    /\ ~gVisible
    /\ gVisible' = TRUE
    /\ gInView' = TRUE
    /\ gAnimations' = IF ~gInView /\ gAnimations < 2 THEN gAnimations + 1 ELSE gAnimations
    /\ UNCHANGED << coreVars, scrollVars, seedVars, logoImg, navVars, themeVars, gValue,
                    gOffset, outbound >>

\* the circle leaves the viewport
GaugeLeaveView ==
    /\ mounted
    /\ gVisible
    /\ gVisible' = FALSE
    /\ gInView' = GaugeInViewAfterLeave(gInView)
    /\ UNCHANGED << coreVars, scrollVars, seedVars, logoImg, navVars, themeVars, gValue,
                    gOffset, gAnimations, outbound >>

\* an animation frame of the circle
GaugeFrame ==
    /\ mounted
    /\ gOffset # GaugeAnimTarget
    /\ gOffset' = TweenToward(gOffset, GaugeAnimTarget)
    /\ UNCHANGED << coreVars, scrollVars, seedVars, logoImg, navVars, themeVars, gValue,
                    gVisible, gInView, gAnimations, outbound >>

\* ----------------------------------------------------------------- ScrollToTop
\* variant of ShowsButton: the threshold itself already shows the button
ShowsButton_AtThreshold(latest) == latest >= 600

\* the argument of setVisible in the "change" callback
ShowsButton(latest) == latest > 600

\* the distances one scroll gesture can move the page by
ScrollDeltas == {-300, -40, -1, 1, 40, 300}

\* the position d away from y, kept within the page
ScrollBy(y, d) ==
    IF y + d < 0 THEN 0 ELSE IF y + d > MaxScrollY THEN MaxScrollY ELSE y + d

\* scrollY changes to latest and the "change" callback runs
OnScrollChange(latest) ==
    /\ latest # scrollY
    /\ scrollY' = latest
    /\ visible' = ShowsButton(latest)

\* the user scrolls the page by d, which ends a smooth scroll under way
UserScroll(d) ==
    /\ mounted
    /\ OnScrollChange(ScrollBy(scrollY, d))
    /\ scrollingToTop' = FALSE
    /\ UNCHANGED << coreVars, logoImg, navVars, themeVars, gaugeVars, outbound, seedVars >>

\* onClick of the button, rendered only while visible: window.scrollTo top 0
ClickScrollTop ==
    /\ mounted
    /\ visible
    /\ ~scrollingToTop
    /\ scrollingToTop' = TRUE
    /\ UNCHANGED << coreVars, logoImg, navVars, themeVars, gaugeVars, outbound, scrollY,
                    visible, seedVars >>

\* the smooth scroll moves the page one step toward the top
SmoothScrollStep ==
    /\ mounted
    /\ scrollingToTop
    /\ OnScrollChange(ScrollBy(scrollY, -40))
    /\ scrollingToTop' = (scrollY' > 0)
    /\ UNCHANGED << coreVars, logoImg, navVars, themeVars, gaugeVars, outbound, seedVars >>

\* ------------------------------------------------------- the seed script's run
\* fs.existsSync
existsSync(p) == p \in fsDirs \/ p \in DOMAIN fsFiles

\* one turn of dirs.forEach: the directory is made when nothing of its name exists
SeedDir ==
    /\ seedPc.at = "dirs"
    /\ LET dir == dirs[seedPc.i]
       IN  IF ~existsSync(dir)
           THEN /\ fsDirs' = fsDirs \cup {dir} \cup Ancestors(dir)
                /\ mkdirCalls' = mkdirCalls \cup {dir}
           ELSE UNCHANGED << fsDirs, mkdirCalls >>
    /\ seedPc' = IF seedPc.i < Len(dirs) THEN [at |-> "dirs", i |-> seedPc.i + 1]
                 ELSE [at |-> "files", i |-> 1]
    /\ UNCHANGED << coreVars, logoImg, navVars, themeVars, gaugeVars, outbound, scrollVars,
                    fsFiles, seedRuns, stdout, fsAfterFirstRun >>

\* one turn of files.forEach: the file is written and the line logged; the
\* write throws, and ends the script, when the file's directory does not exist
SeedFile ==
    /\ seedPc.at = "files"
    /\ LET file == files[seedPc.i]
           last == seedPc.i = Len(files)
       IN  IF dirname(file) \in fsDirs /\ file \notin fsDirs
           THEN /\ fsFiles' = [ p \in DOMAIN fsFiles \cup {file} |->
                                  IF p = file THEN content(file) ELSE fsFiles[p] ]
                /\ stdout' = Append(stdout, << "Created ", file >>)
                /\ seedPc' = IF last THEN [at |-> "done", i |-> 0]
                             ELSE [at |-> "files", i |-> seedPc.i + 1]
                /\ seedRuns' = IF last THEN seedRuns + 1 ELSE seedRuns
                /\ fsAfterFirstRun' = IF last /\ seedRuns = 0 THEN << fsDirs, fsFiles' >>
                                      ELSE fsAfterFirstRun
           ELSE /\ seedPc' = [at |-> "failed", i |-> seedPc.i]
                /\ UNCHANGED << fsFiles, stdout, seedRuns, fsAfterFirstRun >>
    /\ UNCHANGED << coreVars, logoImg, navVars, themeVars, gaugeVars, outbound, scrollVars,
                    fsDirs, mkdirCalls >>

\* the script is started again after a finished run
SeedRunAgain ==
    /\ seedPc.at = "done"
    /\ seedRuns < MaxRuns
    /\ seedPc' = [at |-> "dirs", i |-> 1]
    /\ mkdirCalls' = {}
    /\ stdout' = << >>
    /\ UNCHANGED << coreVars, logoImg, navVars, themeVars, gaugeVars, outbound, scrollVars,
                    fsDirs, fsFiles, seedRuns, fsAfterFirstRun >>


\* ------------------------------------------------------------------- teardown
\* cleanup of the formTimer effect: clears the handle held by the ref, if any
ClearFormTimer(ts) == IF formTimer # 0 THEN { t \in ts : t.id # formTimer } ELSE ts

\* cleanups of the three interval effects: clearInterval of each
ClearIntervals(active) == active \ {"hero", "demo", "quote"}

\* the page view is torn down: every effect cleanup runs
Unmount ==
    /\ mounted
    /\ mounted' = FALSE
    /\ intervals' = ClearIntervals(intervals)
    /\ timers' = ClearFormTimer(timers)
    /\ UNCHANGED << chromeVars, heroRem, demoRem, quoteRem, heroTextIndex, quoteIndex,
                    demoTab, heroTicks, quoteTicks, demoTicks, demoClicked, lastClickedTab,
                    elapsed, shotVars, formSent, formTimer, nextTimerId, navigated,
                    lastRevert, lateCallback, phoneVars, tileVars, counterVars >>

\* ------------------------------------------------------------- specifications
NextForm ==
    \/ Submit
    \/ EnviarOtra
    \/ \E t \in timers : FireRevert(t)
    \/ AdvanceFormClock
    \/ Unmount

SpecForm == Init /\ [][NextForm]_vars

LiveForm ==
    /\ Init
    /\ [][NextForm]_vars
    /\ WF_vars(AdvanceFormClock)
    /\ WF_vars(\E t \in timers : FireRevert(t))

NextRotation ==
    \/ HeroTick
    \/ QuoteTick
    \/ DemoTick
    \/ AdvanceRotationClock
    \/ \E t \in TabSet : ClickDemoTab(t)
    \/ \E i \in 0..(Len(HERO_SHOTS) - 1) : HeroDot(i)
    \/ HeroPrev
    \/ HeroNext
    \/ \E i \in 0..(Len(APP_SHOTS) - 1) : ShotTab(i)
    \/ ShotPrev
    \/ ShotNext
    \/ \E f \in Frames : PhoneEffect(f)
    \/ Unmount

SpecRotation == Init /\ [][NextRotation]_vars

\* the sliders with the two PhoneFrames, and a PhotoTile with any props
InitImages ==
    /\ InitPage
    /\ \E p \in TileProps : InitTile(p)
    /\ InitCounter([type |-> "number", n |-> 86, s |-> << >>], "%")
    /\ InitChrome

NextImages ==
    \/ \E i \in 0..(Len(HERO_SHOTS) - 1) : HeroDot(i)
    \/ HeroPrev
    \/ HeroNext
    \/ \E i \in 0..(Len(APP_SHOTS) - 1) : ShotTab(i)
    \/ ShotPrev
    \/ ShotNext
    \/ \E f \in Frames : PhoneEffect(f)
    \/ \E f \in Frames : PhoneLoadOk(f)
    \/ \E f \in Frames : PhoneLoadFail(f)
    \/ TileLoadOk
    \/ TileLoadFail
    \/ Unmount

SpecImages == InitImages /\ [][NextImages]_vars

\* an AnimatedCounter with any value and suffix
InitCounterAny ==
    /\ InitPage
    /\ InitTile(PROBLEM_TILES[1])
    /\ \E v \in CounterValues, sfx \in Suffixes : InitCounter(v, sfx)
    /\ InitChrome

NextCounter ==
    \/ EnterView
    \/ LeaveView
    \/ SpringStep

SpecCounter == InitCounterAny /\ [][NextCounter]_vars

LiveCounter ==
    /\ InitCounterAny
    /\ [][NextCounter]_vars
    /\ WF_vars(SpringStep)

\* the images rendered without an error handler
NextLogos ==
    \/ \E l \in Logos : LogoLoadOk(l)
    \/ \E l \in Logos : LogoLoadFail(l)

SpecLogos == Init /\ [][NextLogos]_vars

\* the values useTheme can hand out: a preference, or undefined
ThemeValues == Themes \cup {"undefined"}

\* the bar with any stored theme preference
InitNavAny ==
    /\ InitPage
    /\ InitTile(PROBLEM_TILES[1])
    /\ InitCounter([type |-> "number", n |-> 86, s |-> << >>], "%")
    /\ InitLogos
    /\ InitNav
    /\ \E t \in ThemeValues : InitTheme(t)
    /\ InitGauge(92)
    /\ outbound = {}
    /\ InitScroll
    /\ InitSeed({}, << >>)

NextNav ==
    \/ ClickLogo
    \/ \E k \in 1..Len(DesktopItems) : ClickDesktopItem(k)
    \/ ClickPedirDemo
    \/ ToggleMobileMenu
    \/ \E k \in 1..Len(MobileItems) : ClickMobileItem(k)
    \/ \E g \in Toggles : ToggleMountEffect(g)
    \/ \E g \in Toggles, b \in Themes : ClickTheme(g, b)

SpecNav == InitNavAny /\ [][NextNav]_vars

\* a CircularMetric with any whole percentage
InitGaugeAny ==
    /\ InitPage
    /\ InitTile(PROBLEM_TILES[1])
    /\ InitCounter([type |-> "number", n |-> 86, s |-> << >>], "%")
    /\ InitLogos
    /\ InitNav
    /\ InitTheme("system")
    /\ \E v \in Percents : InitGauge(v)
    /\ outbound = {}
    /\ InitScroll
    /\ InitSeed({}, << >>)

NextGauge ==
    \/ GaugeEnterView
    \/ GaugeLeaveView
    \/ GaugeFrame

SpecGauge == InitGaugeAny /\ [][NextGauge]_vars

LiveGauge ==
    /\ InitGaugeAny
    /\ [][NextGauge]_vars
    /\ WF_vars(GaugeFrame)

\* the seven stateful controllers of the page together, over the first
\* seconds of the page (until the quote carousel has moved) and the first
\* submission of the form
NextControllers ==
    \/ HeroTick
    \/ QuoteTick
    \/ DemoTick
    \/ (quoteTicks = 0 /\ AdvanceRotationClock)
    \/ \E t \in TabSet : ClickDemoTab(t)
    \/ HeroPrev
    \/ HeroNext
    \/ ShotPrev
    \/ ShotNext
    \/ \E f \in Frames : PhoneEffect(f)
    \/ (formTimer = 0 /\ Submit)
    \/ EnviarOtra
    \/ ToggleMobileMenu

SpecControllers == Init /\ [][NextControllers]_vars

\* the mobile menu next to the timers and the other controllers of the page
NextMenu ==
    \/ ToggleMobileMenu
    \/ \E k \in 1..Len(MobileItems) : ClickMobileItem(k)
    \/ HeroTick
    \/ QuoteTick
    \/ DemoTick
    \/ (quoteTicks = 0 /\ AdvanceRotationClock)
    \/ HeroNext
    \/ \E f \in Frames : PhoneEffect(f)
    \/ (formTimer = 0 /\ Submit)
    \/ EnviarOtra
    \/ AdvanceFormClock
    \/ \E t \in timers : FireRevert(t)

SpecMenu == Init /\ [][NextMenu]_vars


\* ScrollToTop alone
NextScroll ==
    \/ \E d \in ScrollDeltas : UserScroll(d)
    \/ ClickScrollTop
    \/ SmoothScrollStep

SpecScroll == Init /\ [][NextScroll]_vars

\* the seed script, started on any of the file systems
InitSeedAny ==
    /\ InitPage
    /\ InitTile(PROBLEM_TILES[1])
    /\ InitCounter([type |-> "number", n |-> 86, s |-> << >>], "%")
    /\ InitLogos
    /\ InitNav
    /\ InitTheme("system")
    /\ InitGauge(92)
    /\ outbound = {}
    /\ InitScroll
    /\ \E d \in SeedInitDirs : \E f \in SeedInitFiles(d) : InitSeed(d, f)

NextSeed ==
    \/ SeedDir
    \/ SeedFile
    \/ SeedRunAgain

SpecSeed == InitSeedAny /\ [][NextSeed]_vars


Next ==
    NextForm \/ NextRotation \/ NextImages \/ NextCounter \/ NextLogos \/ NextNav \/ NextGauge
        \/ NextScroll \/ NextSeed

Spec == Init /\ [][Next]_vars

\* ---------------------------------------------------------------- properties
\* C1: the lead form never has more than one pending revert timer, whatever
\* sequence of submissions, "Enviar otra" clicks and timer firings happened.
C1_AtMostOnePendingRevert == Cardinality(timers) <= 1

\* C2: once the page view is torn down no interval is left set, no form
\* revert timeout is left pending, and no timer callback has run after teardown.
C2_AllTimersCancelledAtTeardown ==
    /\ ~mounted => (intervals = {} /\ timers = {})
    /\ ~lateCallback

\* C3: a submission happens only in the editable state, does not navigate,
\* puts the form in the "sent" state and schedules exactly one new revert
\* timeout, due in 12 seconds, keeping its handle in formTimer.
C3_SubmitMarksSentAndSchedulesOneRevert ==
    [][ nextTimerId' # nextTimerId =>
          /\ ~formSent
          /\ formSent'
          /\ ~navigated'
          /\ timers \subseteq timers'
          /\ Cardinality(timers' \ timers) = 1
          /\ \A t \in timers' \ timers : t.rem = 12 /\ t.id = formTimer' ]_vars

C3_Witness ==
    /\ formSent
    /\ ~navigated
    /\ timers = { [id |-> 1, rem |-> 12] }
    /\ formTimer = 1

\* C4: while the view is alive, a form in the "sent" state eventually leaves
\* it: with no interaction the scheduled revert timer fires and clears the flag.
C4_SentEventuallyReverts ==
    (mounted /\ formSent) ~> (~formSent \/ ~mounted)

C4_Witness ==
    /\ mounted
    /\ ~formSent
    /\ lastRevert = "timer"
    /\ timers = {}

\* C5 as stated: for the hero phrase, the quote carousel and the demo tab,
\* after N timer ticks the index is N mod the list length.
C5_IndexIsTicksModLength ==
    /\ heroTicks < MaxTicks => heroTextIndex = heroTicks % Len(heroPhrases)
    /\ quoteTicks < MaxTicks => quoteIndex = quoteTicks % Len(quotes)
    /\ demoTicks < MaxTicks => IndexOf(tabs, demoTab) = demoTicks % Len(tabs)

\* C5 amended: for the hero phrase and the quote carousel, after N timer ticks
\* the index is N mod the list length; for the demo tab this holds as long as
\* no demo tab button has been clicked.
C5_IndexIsTicksModLengthUnlessClicked ==
    /\ heroTicks < MaxTicks => heroTextIndex = heroTicks % Len(heroPhrases)
    /\ quoteTicks < MaxTicks => quoteIndex = quoteTicks % Len(quotes)
    /\ (demoTicks < MaxTicks /\ ~demoClicked) =>
           IndexOf(tabs, demoTab) = demoTicks % Len(tabs)

C5_Witness ==
    /\ heroTicks = 5 /\ heroTextIndex = 1
    /\ quoteTicks = 3 /\ quoteIndex = 0
    /\ demoTicks = 4 /\ demoTab = "Consultorio"
    /\ ~demoClicked

\* C6: the hero phrase index, the quote index, the hero screenshot index and
\* the app screenshot index stay within their lists, and the demo tab is one
\* of the three tabs, under any interleaving of ticks and user actions.
C6_IndicesInRange ==
    /\ heroTextIndex \in 0..(Len(heroPhrases) - 1)
    /\ quoteIndex \in 0..(Len(quotes) - 1)
    /\ demoTab \in {"Recepcion", "Consultorio", "Direccion"}
    /\ heroIndex \in 0..(Len(HERO_SHOTS) - 1)
    /\ shotIndex \in 0..(Len(APP_SHOTS) - 1)

C6_Witness ==
    /\ heroTextIndex = 3
    /\ quoteIndex = 2
    /\ demoTab = "Direccion"
    /\ heroIndex = 1
    /\ shotIndex = 2
    /\ demoClicked

\* the tab that follows t cyclically
CyclicSuccessor(t) ==
    CASE t = "Recepcion" -> "Consultorio"
      [] t = "Consultorio" -> "Direccion"
      [] t = "Direccion" -> "Recepcion"

\* C7: a click on a demo tab makes that tab current and leaves the auto-play
\* interval set with its remaining time untouched; the interval's callbacks
\* stay on the schedule fixed at mount (every DemoPeriod seconds), and the
\* first callback after a click moves to the cyclic successor of the clicked tab.
C7_ClickSetsTabKeepsSchedule ==
    /\ [](lastClickedTab # "none" => demoTab = lastClickedTab)
    /\ []("demo" \in intervals => (elapsed + demoRem) % 4 = 0)
    /\ [][ /\ (lastClickedTab' # lastClickedTab /\ lastClickedTab' # "none") =>
                /\ demoTab' = lastClickedTab'
                /\ demoRem' = demoRem
                /\ elapsed' = elapsed
                /\ intervals' = intervals
           /\ (lastClickedTab # "none" /\ lastClickedTab' = "none") =>
                /\ demoTab' = CyclicSuccessor(lastClickedTab)
                /\ elapsed % 4 = 0 ]_vars

C7_Witness ==
    /\ lastClickedTab = "Direccion"
    /\ demoTab = "Direccion"
    /\ demoTicks = 1
    /\ demoRem = 0
    /\ elapsed = 8

\* C8: before the counter first becomes visible its text is exactly 0 and the
\* suffix; the first entry into the viewport sets the animation target to the
\* numeric value and the number shown converges to it (to its integer part)
\* and stays there; isInView never goes back to false, the target is set at
\* most once, and a later visibility change leaves the target, the spring and
\* the text as they are.
C8_CounterAnimatesOnceOnFirstView ==
    /\ [](~isInView => cText = [nan |-> FALSE, num |-> 0, suffix |-> cSuffix])
    /\ [](animations <= 1)
    /\ [][ /\ isInView => isInView'
           /\ (~isInView /\ isInView') => motionValue' = NumericValue(cValue)
           /\ (isInView /\ cVisible' # cVisible) =>
                 /\ motionValue' = motionValue
                 /\ springValue' = springValue
                 /\ cText' = cText ]_vars
    /\ [](isInView /\ ~NumericValue(cValue).nan =>
             <>[](~cText.nan /\ cText.num = NumericValue(cValue).v \div Scale))

C8_Witness ==
    /\ isInView
    /\ ~cVisible
    /\ animations = 1
    /\ cValue.type = "number"
    /\ cValue.n = 86
    /\ cText = [nan |-> FALSE, num |-> 86, suffix |-> "%"]

\* the text has exactly one run of digits and dots, and the run is a decimal
\* numeral: at most one dot, at least one digit
HasOneNumeral(s) ==
    \E i \in 1..Len(s) : \E j \in i..Len(s) :
        /\ \A k \in 1..Len(s) : (k \in i..j) <=> (s[k] \in Digits \/ s[k] = ".")
        /\ Cardinality({ k \in i..j : s[k] = "." }) <= 1
        /\ \E k \in i..j : s[k] \in Digits

\* the value (times Scale) of the one numeral of s
NumeralValue(s) ==
    LET ks == { k \in 1..Len(s) : s[k] \in Digits \/ s[k] = "." }
        lo == CHOOSE k \in ks : \A m \in ks : k <= m
        hi == CHOOSE k \in ks : \A m \in ks : k >= m
        dots == { k \in ks : s[k] = "." }
        d == IF dots = {} THEN hi + 1 ELSE CHOOSE k \in dots : TRUE
        whole == SubSeq(s, lo, d - 1)
        frac == SubSeq(s, d + 1, hi)
    IN  DigitsValue(whole) * Scale + (DigitsValue(frac) * Scale) \div Pow10(Len(frac))

\* C9: once the animation has been triggered its target is the numeric
\* portion of a text value (the one decimal numeral the text holds, whatever
\* non-numeric characters surround it); a numeric value is the target unchanged.
C9_NumericPortionIsTheTarget ==
    isInView =>
        /\ cValue.type = "number" => motionValue = [nan |-> FALSE, v |-> cValue.n * Scale]
        /\ (cValue.type = "string" /\ HasOneNumeral(cValue.s)) =>
               motionValue = [nan |-> FALSE, v |-> NumeralValue(cValue.s)]

C9_Witness ==
    /\ isInView
    /\ cValue.type = "string"
    /\ cValue.s = << "9", "2", "%" >>
    /\ motionValue = [nan |-> FALSE, v |-> 92 * Scale]

\* the gradient each tone stands for
GradientOf(tone) ==
    CASE tone = "blue" -> "from-slate-900/10 via-blue-900/10 to-cyan-900/10"
      [] tone = "violet" -> "from-slate-900/10 via-purple-900/10 to-fuchsia-900/10"
      [] tone = "amber" -> "from-slate-900/10 via-orange-900/10 to-amber-900/10"

\* C10: no PhotoTile or PhoneFrame ever shows an <img> whose load failed; a
\* PhotoTile whose imageSrc is missing or failed to load renders the gradient
\* of its tone and no <img>; a PhoneFrame whose current src failed to load
\* renders its children and no <img>, and a PhoneFrame without src never
\* renders an <img>.
C10_FailedOrMissingImageShowsPlaceholder ==
    /\ tileImg # "broken"
    /\ \A f \in Frames : phoneImg[f] # "broken"
    /\ (tileSrc = NoSrc \/ tileFailed) =>
           /\ PhotoTileRender = [kind |-> "placeholder", content |-> GradientOf(tileTone)]
           /\ tileImg = "none"
    /\ \A f \in Frames : phoneFailed[f] =>
           /\ PhoneFrameRender(f) = [kind |-> "placeholder", content |-> "children"]
           /\ phoneImg[f] = "none"
    /\ \A e \in BOOLEAN : ~PhoneFrameShowImage(NoSrc, e)

C10_Witness ==
    /\ tileFailed
    /\ tileTone = "amber"
    /\ tileImg = "none"
    /\ shotIndex = 1
    /\ phoneFailed["app"]
    /\ phoneImg["app"] = "none"
    /\ phoneImg["hero"] = "loaded"

\* C11: no image consumer of the page is ever left with an <img> whose load
\* failed: neither a logo (bar, replica screen, form card, demo header,
\* footer), nor a photo tile, nor a phone frame.
C11_NoConsumerShowsBrokenImage ==
    /\ \A l \in Logos : logoImg[l] # "broken"
    /\ tileImg # "broken"
    /\ \A f \in Frames : phoneImg[f] # "broken"

\* C12: a component never loads again a reference whose load has failed in
\* it: a photo tile whose image failed is not loading, and a phone frame is
\* not loading a src that failed in it before, whatever the sliders did since.
C12_FailedReferenceNeverLoadedAgain ==
    /\ tileFailed => tileImg # "loading"
    /\ \A f \in Frames : phoneImg[f] = "loading" => PhoneSrc(f) \notin phoneFailedSrcs[f]

\* C13: every click on an item of the bar or of the mobile menu asks for the id
\* of a section that exists on the page, so the click scrolls there.
C13_EveryMenuClickTargetsASection ==
    lastScrollId # NoId => (lastScrollId \in SectionIds /\ scrolledTo = lastScrollId)

\* C14: a rendered theme toggle marks at most one of its three buttons as
\* active, the one whose preference is the current theme, and none when the
\* theme is none of the three; a click on a button makes its preference the
\* provider's theme, which then is the active button of every rendered toggle.
C14_ExactlyTheCurrentThemeIsActive ==
    /\ \A g \in Toggles : ThemeToggleRender(g).kind = "buttons" =>
           /\ Cardinality(ThemeToggleRender(g).active) <= 1
           /\ \A b \in {"light", "dark", "system"} :
                  (b \in ThemeToggleRender(g).active) <=> (theme = b)
    /\ lastThemeClick # "none" =>
           /\ theme = lastThemeClick
           /\ \E g \in Toggles : ThemeToggleRender(g).active = {lastThemeClick}

C14_Witness ==
    /\ lastThemeClick = "dark"
    /\ ThemeToggleRender("desktop") = [kind |-> "buttons", active |-> {"dark"}]
    /\ ThemeToggleRender("mobile") = [kind |-> "buttons", active |-> {"dark"}]

\* C15: a theme toggle renders nothing until its mount effect has run and the
\* three buttons from then on; the theme is not changed through a toggle
\* before one is mounted, and a mounted toggle never goes back to unmounted.
C15_ToggleRendersOnlyAfterMount ==
    /\ [](\A g \in Toggles :
             /\ ~toggleMounted[g] => ThemeToggleRender(g) = [kind |-> "null", active |-> {}]
             /\ toggleMounted[g] => ThemeToggleRender(g).kind = "buttons")
    /\ []((\A g \in Toggles : ~toggleMounted[g]) => lastThemeClick = "none")
    /\ [][\A g \in Toggles : toggleMounted[g] => toggleMounted'[g]]_vars

C15_Witness ==
    /\ toggleMounted["desktop"]
    /\ ~toggleMounted["mobile"]
    /\ ThemeToggleRender("desktop").kind = "buttons"
    /\ ThemeToggleRender("mobile").kind = "null"
    /\ lastThemeClick = "light"

\* C16: the offset the gauge animates to is the circumference less the
\* hundredth part of the circumference times the percentage, so the arc (the
\* circumference less the offset) is proportional to the percentage: the
\* offset is the circumference at 0 and 0 at 100, and a larger percentage
\* never gives a larger offset. A gauge at rest in view has this offset.
C16_ArcProportionalToPercentage ==
    /\ GaugeOffset(gValue) = circumference - (circumference \div 100) * gValue
    /\ circumference - GaugeOffset(gValue) = (circumference \div 100) * gValue
    /\ GaugeOffset(0) = circumference
    /\ GaugeOffset(100) = 0
    /\ \A w \in 0..100 : w >= gValue => GaugeOffset(w) <= GaugeOffset(gValue)
    /\ \A w \in 0..100 : w > gValue => GaugeOffset(w) < GaugeOffset(gValue)
    /\ (gInView /\ ~ENABLED GaugeFrame) =>
           gOffset = circumference - (circumference \div 100) * gValue

C16_Witness ==
    /\ gValue = 100
    /\ gInView
    /\ gOffset = 0

\* C17: the gauge is empty (offset = circumference) until it first comes into
\* view; the first entry starts the one animation, which brings the offset to
\* its target where it stays; the offset never grows back, the gauge never
\* leaves the in-view state, and a later visibility change leaves the offset
\* as it is.
C17_GaugeAnimatesOnceOnFirstView ==
    /\ [](~gInView => gOffset = circumference)
    /\ [](gAnimations <= 1)
    /\ [][ /\ gInView => gInView'
           /\ gOffset' <= gOffset
           /\ (gInView /\ gVisible' # gVisible) => gOffset' = gOffset ]_vars
    /\ [](gInView => <>[](gOffset = circumference - (circumference \div 100) * gValue))

C17_Witness ==
    /\ gInView
    /\ ~gVisible
    /\ gAnimations = 1
    /\ gValue = 92
    /\ gOffset = 1608704

\* C18: on both sliders "next" moves the index to (index + 1) mod length, so
\* from the last slide to 0; "previous" moves to index - 1 and from 0 to
\* length - 1; a click on dot or tab i sets the index to i; and the slide
\* shown, the one whose src the phone frame is given and renders, is always
\* the list item at the current index.
C18_SliderStepsAndDisplayedSlide ==
    /\ [](/\ heroIndex \in 0..(Len(HERO_SHOTS) - 1)
          /\ shotIndex \in 0..(Len(APP_SHOTS) - 1)
          /\ activeHeroShot = HERO_SHOTS[heroIndex + 1]
          /\ activeShot = APP_SHOTS[shotIndex + 1]
          /\ PhoneSrc("hero") = HERO_SHOTS[heroIndex + 1].src
          /\ PhoneSrc("app") = APP_SHOTS[shotIndex + 1].src
          /\ PhoneFrameRender("hero").kind = "img" =>
                 PhoneFrameRender("hero").src = HERO_SHOTS[heroIndex + 1].src
          /\ PhoneFrameRender("app").kind = "img" =>
                 PhoneFrameRender("app").src = APP_SHOTS[shotIndex + 1].src)
    /\ [][ /\ HeroNext =>
                /\ heroIndex' = (heroIndex + 1) % Len(HERO_SHOTS)
                /\ heroIndex = Len(HERO_SHOTS) - 1 => heroIndex' = 0
           /\ HeroPrev =>
                /\ heroIndex > 0 => heroIndex' = heroIndex - 1
                /\ heroIndex = 0 => heroIndex' = Len(HERO_SHOTS) - 1
           /\ \A i \in 0..(Len(HERO_SHOTS) - 1) : HeroDot(i) => heroIndex' = i
           /\ ShotNext =>
                /\ shotIndex' = (shotIndex + 1) % Len(APP_SHOTS)
                /\ shotIndex = Len(APP_SHOTS) - 1 => shotIndex' = 0
           /\ ShotPrev =>
                /\ shotIndex > 0 => shotIndex' = shotIndex - 1
                /\ shotIndex = 0 => shotIndex' = Len(APP_SHOTS) - 1
           /\ \A i \in 0..(Len(APP_SHOTS) - 1) : ShotTab(i) => shotIndex' = i ]_vars

C18_Witness ==
    /\ heroIndex = 1
    /\ shotIndex = Len(APP_SHOTS) - 1
    /\ phoneImg["app"] = "loaded"
    /\ PhoneFrameRender("app") = [kind |-> "img", src |-> APP_SHOTS[Len(APP_SHOTS)].src]
    /\ phoneFailedSrcs["app"] = {APP_SHOTS[1].src}

Controllers == {"heroPhrase", "quote", "demo", "heroSlider", "appSlider", "form", "menu"}

ControllerState ==
    [ c \in Controllers |->
        CASE c = "heroPhrase" -> heroTextIndex
          [] c = "quote" -> quoteIndex
          [] c = "demo" -> demoTab
          [] c = "heroSlider" -> heroIndex
          [] c = "appSlider" -> shotIndex
          [] c = "form" -> << formSent, formTimer >>
          [] c = "menu" -> mobileMenuOpen ]

ControllerValues(c) ==
    CASE c = "heroPhrase" -> 0..(Len(heroPhrases) - 1)
      [] c = "quote" -> 0..(Len(quotes) - 1)
      [] c = "demo" -> TabSet
      [] c = "heroSlider" -> 0..(Len(HERO_SHOTS) - 1)
      [] c = "appSlider" -> 0..(Len(APP_SHOTS) - 1)
      [] c = "form" -> BOOLEAN \X (0..MaxSubmits)
      [] c = "menu" -> BOOLEAN

ControllerRank(c) ==
    CASE c = "heroPhrase" -> 1
      [] c = "quote" -> 2
      [] c = "demo" -> 3
      [] c = "heroSlider" -> 4
      [] c = "appSlider" -> 5
      [] c = "form" -> 6
      [] c = "menu" -> 7

\* the ticks and user actions of the controllers
Events ==
    [c : {"heroPhrase"}, op : {"HeroTick"}, arg : {0}]
    \cup [c : {"quote"}, op : {"QuoteTick"}, arg : {0}]
    \cup [c : {"demo"}, op : {"DemoTick"}, arg : {0}]
    \cup [c : {"demo"}, op : {"ClickDemoTab"}, arg : 1..Len(tabs)]
    \cup [c : {"heroSlider"}, op : {"HeroPrev", "HeroNext"}, arg : {0}]
    \cup [c : {"heroSlider"}, op : {"HeroDot"}, arg : 0..(Len(HERO_SHOTS) - 1)]
    \cup [c : {"appSlider"}, op : {"ShotPrev", "ShotNext"}, arg : {0}]
    \cup [c : {"appSlider"}, op : {"ShotTab"}, arg : 0..(Len(APP_SHOTS) - 1)]
    \cup [c : {"form"}, op : {"Submit", "EnviarOtra"}, arg : {0}]
    \cup [c : {"menu"}, op : {"ToggleMobileMenu"}, arg : {0}]
    \cup [c : {"menu"}, op : {"ClickMobileItem"}, arg : {1}]

\* the action of event e
Do(e) ==
    CASE e.op = "HeroTick" -> HeroTick
      [] e.op = "QuoteTick" -> QuoteTick
      [] e.op = "DemoTick" -> DemoTick
      [] e.op = "ClickDemoTab" -> ClickDemoTab(tabs[e.arg])
      [] e.op = "HeroPrev" -> HeroPrev
      [] e.op = "HeroNext" -> HeroNext
      [] e.op = "HeroDot" -> HeroDot(e.arg)
      [] e.op = "ShotPrev" -> ShotPrev
      [] e.op = "ShotNext" -> ShotNext
      [] e.op = "ShotTab" -> ShotTab(e.arg)
      [] e.op = "Submit" -> Submit
      [] e.op = "EnviarOtra" -> EnviarOtra
      [] e.op = "ToggleMobileMenu" -> ToggleMobileMenu
      [] e.op = "ClickMobileItem" -> ClickMobileItem(e.arg)

\* event b can happen now and leaves the controllers in state x
Reaches(b, x) == ENABLED (Do(b) /\ ControllerState' = x)

\* the same, once the passive effects that are pending have run
AfterEffects(b, x) ==
    IF EffectsFlushed
    THEN Reaches(b, x)
    ELSE ENABLED ((\E f \in Frames : PhoneEffect(f)) /\ Reaches(b, x)')

\* event a and then event b can happen, and leave the controllers in state x
Then(a, b, x) == ENABLED (Do(a) /\ AfterEffects(b, x)')

\* the events that can happen now, each with the state it gives its controller
Outcomes ==
    { p \in UNION { {e} \X ControllerValues(e.c) : e \in Events } :
        ENABLED (Do(p[1]) /\ ControllerState'[p[1].c] = p[2]) }

C21_NoEarlyRevertByStaleTimer ==
    lastRevert = "timer" => \A t \in timers : t.id = formTimer => t.rem = 0

\* C22: a revert timeout is pending only while the confirmation view is shown:
\* whenever the mounted page shows the editable form (initially, after a
\* timeout fired, after 'Enviar otra'), no revert timeout is pending.
C22_TimerPendingOnlyWhileSent ==
    (mounted /\ ~formSent) => timers = {}


\* C23: the error flag of a phone frame refers to the src the frame has now:
\* every change of src schedules the effect that clears the flag, the effect
\* leaves the flag clear, and once it has run the flag is set exactly when the
\* current src has itself failed to load, so the placeholder is never shown
\* for a present src on account of the failure of an earlier one.
C23_ErrorFlagRefersToCurrentSrc ==
    /\ [](EffectsFlushed =>
            \A f \in Frames :
                /\ phoneImgError[f] <=> phoneFailed[f]
                /\ (PhoneSrc(f) # NoSrc /\ PhoneFrameRender(f).kind = "placeholder")
                       => phoneFailed[f])
    /\ [][ \A f \in Frames :
                /\ (PhoneSrc(f)' # PhoneSrc(f)) => (phoneEffect'[f] /\ ~phoneFailed'[f])
                /\ (phoneEffect[f] /\ ~phoneEffect'[f]) => ~phoneImgError'[f] ]_vars

\* the hero frame's src failed, the slider moved on, the effect has run and the
\* new src, which has not failed, is loaded and shown
C23_Witness ==
    /\ EffectsFlushed
    /\ phoneFailedSrcs["hero"] # {}
    /\ PhoneSrc("hero") \notin phoneFailedSrcs["hero"]
    /\ ~phoneImgError["hero"]
    /\ phoneImg["hero"] = "loaded"
    /\ PhoneFrameRender("hero") = [kind |-> "img", src |-> PhoneSrc("hero")]


\* C24: the mobile menu is closed when the page is mounted; a click on its
\* toggle flips it; a click on an item of the open menu leaves it closed; and
\* a step that changes it is one of these two clicks, never a timer tick, a
\* timeout or the handler of another controller.
C24_MenuChangesOnlyByItsOwnClicks ==
    /\ ~mobileMenuOpen
    /\ [][ /\ ToggleMobileMenu => (mobileMenuOpen' = ~mobileMenuOpen)
           /\ (\E k \in 1..Len(MobileItems) : ClickMobileItem(k)) => ~mobileMenuOpen'
           /\ (mobileMenuOpen' # mobileMenuOpen) =>
                  \/ ToggleMobileMenu
                  \/ \E k \in 1..Len(MobileItems) : ClickMobileItem(k) ]_vars

\* the menu was opened and an item of it was clicked ("Contacto" is an item of
\* the mobile menu only), after timers of the page had ticked
C24_Witness ==
    /\ ~mobileMenuOpen
    /\ lastScrollId = << "c", "o", "n", "t", "a", "c", "t", "o" >>
    /\ heroTicks > 0
    /\ demoTicks > 0


\* C25: the scroll-to-top button is visible exactly when the last reported
\* scroll position is above 600: hidden before any report and at 600 or less,
\* shown from 601 on, whatever positions were reported before.
C25_ButtonVisibleIffLastPositionAbove600 ==
    /\ scrollY \in 0..MaxScrollY
    /\ visible <=> (scrollY > 600)

\* the button was shown and clicked, and the smooth scroll has just reported
\* position 600: the button is hidden while the page is still scrolling up
C25_Witness ==
    /\ scrollY = 600
    /\ ~visible
    /\ scrollingToTop


\* C26: every static image path the page references (under /brand, /shots and
\* /photos) is served from a file the seed script creates: when a run of the
\* script has finished, it has written and logged the file under public/ of
\* every such path.
C26_EveryPageImageIsSeeded ==
    seedPc.at = "done" =>
        \A p \in PageImagePaths :
            \E i \in 1..Len(stdout) : Text(stdout[i][2]) = PublicFile(p)

\* s ends with suf
EndsWith(s, suf) ==
    Len(s) >= Len(suf) /\ SubSeq(s, Len(s) - Len(suf) + 1, Len(s)) = suf

\* the bytes start with the JPEG start-of-image marker
IsJpeg(bytes) == Len(bytes) >= 3 /\ SubSeq(bytes, 1, 3) = << 255, 216, 255 >>

\* the bytes start with the PNG signature
IsPng(bytes) ==
    Len(bytes) >= 8 /\ SubSeq(bytes, 1, 8) = << 137, 80, 78, 71, 13, 10, 26, 10 >>

\* C27: the seed script passes a directory to mkdirSync only when nothing of
\* that name exists; it never fails; when a run has finished, its three
\* directories exist and every listed file holds the JPEG placeholder bytes
\* if its name ends in .jpg or .jpeg and the PNG bytes otherwise (names with
\* another extension or none included); and from the end of the first run on
\* the directories, files and contents stay as that run left them, so a
\* second run makes no directory and changes nothing.
C27_SeedWritesPlaceholdersAndIsIdempotent ==
    /\ [][ \A d \in mkdirCalls' \ mkdirCalls :
                d \notin fsDirs /\ d \notin DOMAIN fsFiles ]_vars
    /\ [](seedPc.at # "failed")
    /\ [](IsJpeg(jpgBuffer) /\ IsPng(pngBuffer))
    /\ [](/\ content(<< "a", ".", "j", "p", "e", "g" >>) = jpgBuffer
          /\ content(<< "a", ".", "g", "i", "f" >>) = pngBuffer
          /\ content(<< "a", ".", "J", "P", "G" >>) = pngBuffer
          /\ content(<< "j", "p", "g" >>) = pngBuffer)
    /\ [](seedPc.at = "done" =>
            /\ \A i \in 1..Len(dirs) : dirs[i] \in fsDirs
            /\ \A i \in 1..Len(files) :
                  /\ files[i] \in DOMAIN fsFiles
                  /\ fsFiles[files[i]] =
                        IF \/ EndsWith(files[i], << ".", "j", "p", "g" >>)
                           \/ EndsWith(files[i], << ".", "j", "p", "e", "g" >>)
                        THEN jpgBuffer
                        ELSE pngBuffer
            /\ seedRuns >= 2 => mkdirCalls = {})
    /\ [](seedRuns >= 1 => << fsDirs, fsFiles >> = fsAfterFirstRun)

\* a second run has finished on a file system that also holds a file the
\* script does not list; the second run made no directory
C27_Witness ==
    /\ seedPc.at = "done"
    /\ seedRuns = 2
    /\ mkdirCalls = {}
    /\ ForeignFile \in DOMAIN fsFiles
    /\ fsFiles[ForeignFile] = OldBytes
    /\ IsJpeg(fsFiles[files[6]])


====
